---- MODULE Spec2Model ----
(***************************************************************************)
(* A model of the object store of codecrafters-git-rust: the binary        *)
(* (src/main.rs) and the library (src/git.rs).  Bytes are the naturals     *)
(* 0..255, byte strings are sequences of bytes, and the object store is    *)
(* the directory .git/objects: the set of its sub-directories and a        *)
(* function from the paths <<dir, file>> to the bytes of the file.         *)
(***************************************************************************)
EXTENDS Integers, Sequences, FiniteSets, Bags, TLC

VARIABLES
  dirs,     \* the sub-directories of .git/objects (two hex characters each)
  files,    \* the object files: <<dir, file>> -> bytes
  workdir,  \* the working directory, as read_dir reports it
  last,     \* the last command or library call and how it ended
  calls,    \* every object handed to write_object / hash_object that was stored
  leaves,   \* the GitTree given to serialize
  out       \* what serialize returned

vars == <<dirs, files, workdir, last, calls, leaves, out>>

(***************************************************************************)
(* Bounds of the model.                                                    *)
(***************************************************************************)
\* most object files the store is let to hold
MaxObjects == 2
\* most entries of a GitTree handed to serialize
MaxLeaves == 3

(***************************************************************************)
(* Bytes and byte strings.                                                 *)
(***************************************************************************)
SP == 32
NUL == 0
BACKSLASH == 92
BLOB == <<98, 108, 111, 98>>
TREE == <<116, 114, 101, 101>>
COMMIT == <<99, 111, 109, 109, 105, 116>>
NEWLINE == <<10>>

\* usize::to_string: the decimal digits of n, no leading zero
RECURSIVE to_string(_)
to_string(n) ==
  IF n < 10 THEN <<48 + n>> ELSE Append(to_string(n \div 10), 48 + (n % 10))

\* index of the first b in s at an index >= from, 0 when there is none
\* (Iterator::position counts from zero; the model's sequences start at 1)
position(s, b, from) ==
  LET found == {i \in from..Len(s) : s[i] = b}
  IN IF from < 1 \/ found = {} THEN 0
     ELSE CHOOSE i \in found : \A j \in found : i <= j

\* the sum of the naturals f[1], ..., f[Len(f)]: f with every count raised
\* by one is a bag of Len(f) more copies
sum(f) == IF Len(f) = 0 THEN 0 ELSE BagCardinality([k \in 1..Len(f) |-> f[k] + 1]) - Len(f)

\* lexicographic order of byte strings (Ord for [u8] and for String)
RECURSIVE seq_less(_, _)
seq_less(a, b) ==
  IF b = <<>> THEN FALSE
  ELSE IF a = <<>> THEN TRUE
  ELSE IF Head(a) # Head(b) THEN Head(a) < Head(b)
  ELSE seq_less(Tail(a), Tail(b))

starts_with(s, p) == Len(s) >= Len(p) /\ SubSeq(s, 1, Len(p)) = p

RECURSIVE concat(_)
concat(ss) == IF ss = <<>> THEN <<>> ELSE Head(ss) \o concat(Tail(ss))

(***************************************************************************)
(* hex::encode / hex::decode and format!("{:02x}").                        *)
(***************************************************************************)
hex_digit(n) == IF n < 10 THEN 48 + n ELSE 87 + n

hex_value(c) == IF c >= 97 THEN c - 87 ELSE c - 48

hex_encode(bytes) ==
  [i \in 1..(2 * Len(bytes)) |->
     IF i % 2 = 1 THEN hex_digit(bytes[(i + 1) \div 2] \div 16)
     ELSE hex_digit(bytes[i \div 2] % 16)]

hex_decode(text) ==
  [i \in 1..(Len(text) \div 2) |->
     16 * hex_value(text[2 * i - 1]) + hex_value(text[2 * i])]

(***************************************************************************)
(* The digest.  SHA-1 is modelled by a deterministic 20-byte mixing        *)
(* function of the bytes hashed: three sums of the data, weighted by the   *)
(* position, are spread over the bytes of the digest.                      *)
(***************************************************************************)
ShaLen == 20

sha_hash(data) ==
  LET n == Len(data)
      s1 == sum(data) % 65521
      s2 == sum([k \in 1..n |-> k * data[k]]) % 65521
      s3 == sum([k \in 1..n |-> ((k * k) % 251) * data[k]]) % 65521
  IN [i \in 1..ShaLen |->
        (s1 * (2 * i + 1) + s2 * (i * i + 3) + s3 * (7 * i + 5) + 31 * n + i) % 256]

sha_hash_str(data) == hex_encode(sha_hash(data))

(***************************************************************************)
(* The compressor.  zlib is modelled by its framing: the two header bytes, *)
(* the data as one stored run, and the Adler-32 checksum of the data, big  *)
(* endian.  decompress checks the frame and fails on anything else.        *)
(***************************************************************************)
adler(data) ==
  LET n == Len(data)
      a == (1 + sum(data)) % 65521
      b == (n + sum([k \in 1..n |-> (n - k + 1) * data[k]])) % 65521
  IN <<b \div 256, b % 256, a \div 256, a % 256>>

compress(data) == <<120, 156>> \o data \o adler(data)

decompress(data) ==
  IF Len(data) >= 6 /\ SubSeq(data, 1, 2) = <<120, 156>>
     /\ SubSeq(data, Len(data) - 3, Len(data))
          = adler(SubSeq(data, 3, Len(data) - 4))
  THEN [ok |-> TRUE, bytes |-> SubSeq(data, 3, Len(data) - 4)]
  ELSE [ok |-> FALSE, bytes |-> <<>>]

(***************************************************************************)
(* The envelope and the path of an object.                                 *)
(***************************************************************************)
envelope(object_type, contents) ==
  object_type \o <<SP>> \o to_string(Len(contents)) \o <<NUL>> \o contents

object_dir(sha) == SubSeq(sha, 1, 2)

object_file(sha) == <<object_dir(sha), SubSeq(sha, 3, Len(sha))>>

(***************************************************************************)
(* main.rs: GitBlob, GitTreeLeaf, GitTree, GitCommit.                      *)
(* A leaf is [mode: bytes, path: characters, sha_hash: hex text]; a path   *)
(* is a String, modelled as the sequence of its characters' code points.   *)
(***************************************************************************)
\* String::as_bytes of a string of code points below 256 (UTF-8)
as_bytes(path) ==
  concat([i \in 1..Len(path) |->
            IF path[i] < 128 THEN <<path[i]>>
            ELSE <<192 + (path[i] \div 64), 128 + (path[i] % 64)>>])

\* mode = [0; 6] filled from the digit run; mode.len() is always 6
pad_mode(run) == run \o [i \in 1..(6 - Len(run)) |-> 0]

tree_parse_one(raw_bytes, start_index) ==
  LET sp == position(raw_bytes, SP, start_index)
      nul == position(raw_bytes, NUL, sp + 1)
  IN IF sp = 0 \/ sp - start_index > 6
       THEN [ok |-> FALSE, msg |-> "index out of bounds: mode"]
     ELSE IF nul = 0
       THEN [ok |-> FALSE, msg |-> "index out of bounds: path"]
     ELSE IF nul + ShaLen > Len(raw_bytes)
       THEN [ok |-> FALSE, msg |-> "index out of bounds: sha"]
     ELSE [ok |-> TRUE,
           leaf |-> [mode |-> pad_mode(SubSeq(raw_bytes, start_index, sp - 1)),
                     path |-> SubSeq(raw_bytes, sp + 1, nul - 1),
                     sha_hash |-> hex_encode(SubSeq(raw_bytes, nul + 1, nul + ShaLen))],
           index |-> nul + ShaLen + 1]

RECURSIVE tree_parse_from(_, _, _)
tree_parse_from(raw_bytes, index, result) ==
  IF index > Len(raw_bytes) THEN [ok |-> TRUE, leaves |-> result]
  ELSE LET one == tree_parse_one(raw_bytes, index)
       IN IF ~one.ok THEN [ok |-> FALSE, msg |-> one.msg]
          ELSE tree_parse_from(raw_bytes, one.index, Append(result, one.leaf))

tree_parse(raw_bytes) == tree_parse_from(raw_bytes, 1, <<>>)

tree_leaf_sort_key(leaf) ==
  IF starts_with(leaf.mode, <<49, 48>>) THEN leaf.path
  ELSE Append(leaf.path, BACKSLASH)

\* sort_by_key is a stable sort: a leaf goes after every leaf already placed
\* whose key is not greater than its own
RECURSIVE sort_insert(_, _)
sort_insert(sorted, leaf) ==
  IF sorted = <<>> THEN <<leaf>>
  ELSE IF seq_less(tree_leaf_sort_key(leaf), tree_leaf_sort_key(Head(sorted)))
    THEN <<leaf>> \o sorted
  ELSE <<Head(sorted)>> \o sort_insert(Tail(sorted), leaf)

RECURSIVE sort_by_key(_)
sort_by_key(ls) ==
  IF ls = <<>> THEN <<>>
  ELSE sort_insert(sort_by_key(SubSeq(ls, 1, Len(ls) - 1)), ls[Len(ls)])

serialize_leaf(leaf) ==
  (IF starts_with(leaf.mode, <<48>>) THEN Tail(leaf.mode) ELSE leaf.mode)
    \o <<SP>> \o as_bytes(leaf.path) \o <<NUL>> \o hex_decode(leaf.sha_hash)

\* GitTree::serialize
serialize_tree(ls) ==
  LET sorted_leaves == sort_by_key(ls)
  IN concat([i \in 1..Len(sorted_leaves) |-> serialize_leaf(sorted_leaves[i])])

\* GitObject::serialize of what read_object returned
serialize(object) ==
  IF object.kind = "blob" THEN object.blob_data ELSE serialize_tree(object.leaves)

(***************************************************************************)
(* main.rs: the store.  fs is [dirs, files, log]; log lists the objects    *)
(* written, in the order of the calls.                                     *)
(***************************************************************************)
\* write_object, opening the object file for appending instead of replacing it
write_object_appending(fs, contents, object_type) ==
  LET result == envelope(object_type, contents)
      sha_string == hex_encode(sha_hash(result))
      path == <<SubSeq(sha_string, 1, 2), SubSeq(sha_string, 3, Len(sha_string))>>
  IN [status |-> "ok",
      dirs |-> fs.dirs \cup {path[1]},
      files |-> [p \in DOMAIN fs.files \cup {path} |->
                   IF p # path THEN fs.files[p]
                   ELSE IF p \in DOMAIN fs.files
                     THEN fs.files[p] \o compress(result)
                   ELSE compress(result)],
      log |-> Append(fs.log, [type |-> object_type, contents |-> contents,
                              sha |-> sha_string]),
      ret |-> sha_string]

write_object(fs, contents, object_type) ==
  LET result == envelope(object_type, contents)
      sha_string == hex_encode(sha_hash(result))
      path == <<SubSeq(sha_string, 1, 2), SubSeq(sha_string, 3, Len(sha_string))>>
  IN [status |-> "ok",
      dirs |-> fs.dirs \cup {path[1]},
      files |-> [p \in DOMAIN fs.files \cup {path} |->
                   IF p = path THEN compress(result) ELSE fs.files[p]],
      log |-> Append(fs.log, [type |-> object_type, contents |-> contents,
                              sha |-> sha_string]),
      ret |-> sha_string]

read_object(fs, hash) ==
  IF Len(hash) < 2 THEN [status |-> "panic", msg |-> "byte index out of range"]
  ELSE
  LET path == <<SubSeq(hash, 1, 2), SubSeq(hash, 3, Len(hash))>>
  IN IF path \notin DOMAIN fs.files
       THEN [status |-> "panic", msg |-> "unwrap on Err: NotFound"]
     ELSE
     LET d == decompress(fs.files[path])
         decoded_bytes == d.bytes
         index_of_first_whitespace == position(decoded_bytes, SP, 1)
         index_of_first_null == position(decoded_bytes, NUL, 1)
         object_type == SubSeq(decoded_bytes, 1, index_of_first_whitespace - 1)
         byte_contents ==
           SubSeq(decoded_bytes, index_of_first_null + 1, Len(decoded_bytes))
     IN IF ~d.ok THEN [status |-> "panic", msg |-> "unwrap on Err: corrupt stream"]
        ELSE IF index_of_first_whitespace = 0 \/ index_of_first_null = 0
          THEN [status |-> "panic", msg |-> "unwrap on None"]
        ELSE IF object_type = BLOB
          THEN [status |-> "ok", msg |-> "",
                object |-> [kind |-> "blob", blob_data |-> byte_contents]]
        ELSE IF object_type = TREE
          THEN LET t == tree_parse(byte_contents)
               IN IF t.ok
                    THEN [status |-> "ok", msg |-> "",
                          object |-> [kind |-> "tree", leaves |-> t.leaves]]
                  ELSE [status |-> "panic", msg |-> t.msg]
        ELSE [status |-> "panic", msg |-> "unknown object type"]

(***************************************************************************)
(* git.rs: the library.                                                    *)
(***************************************************************************)
\* std::str::from_utf8(..).is_ok(): the UTF-8 grammar
is_utf8(b) ==
  LET n == Len(b)
      cont(i) == i <= n /\ b[i] >= 128 /\ b[i] <= 191
      \* the bytes that follow the leading byte b[i] in its character
      more(i) == IF b[i] < 128 THEN 0 ELSE IF b[i] <= 223 THEN 1
                 ELSE IF b[i] <= 239 THEN 2 ELSE 3
      lead_ok(i) ==
        /\ b[i] < 128 \/ (b[i] >= 194 /\ b[i] <= 244)
        /\ \A j \in (i + 1)..(i + more(i)) : cont(j)
        /\ b[i] = 224 => b[i + 1] >= 160
        /\ b[i] = 237 => b[i + 1] <= 159
        /\ b[i] = 240 => b[i + 1] >= 144
        /\ b[i] = 244 => b[i + 1] <= 143
        /\ ~cont(i + more(i) + 1)
  IN /\ ~cont(1)
     /\ \A i \in 1..n : ~cont(i) => lead_ok(i)

\* str::parse::<usize>: an optional '+', then one or more decimal digits;
\* -1 stands for Err
RECURSIVE digits_value(_, _)
digits_value(s, acc) ==
  IF s = <<>> THEN acc
  ELSE IF Head(s) < 48 \/ Head(s) > 57 THEN -1
  ELSE digits_value(Tail(s), 10 * acc + (Head(s) - 48))

parse_usize(s) ==
  LET digits == IF s # <<>> /\ Head(s) = 43 THEN Tail(s) ELSE s
  IN IF digits = <<>> \/ Len(digits) > 9 THEN -1 ELSE digits_value(digits, 0)

git_read_object(fs, sha) ==
  IF Len(sha) < 2 THEN [status |-> "panic", msg |-> "byte index out of range"]
  ELSE
  LET object_file_path == object_file(sha)
  IN IF object_file_path \notin DOMAIN fs.files
       THEN [status |-> "panic", msg |-> "Failed to open file"]
     ELSE
     LET d == decompress(fs.files[object_file_path])
         decompressed_bytes == d.bytes
         space_idx == position(decompressed_bytes, SP, 1)
         null_idx == position(decompressed_bytes, NUL, space_idx)
         size_str == SubSeq(decompressed_bytes, space_idx + 1, null_idx - 1)
     IN IF ~d.ok THEN [status |-> "panic", msg |-> "Failed to finish decompression"]
        ELSE IF space_idx = 0 THEN [status |-> "panic", msg |-> "Could not find space"]
        ELSE IF null_idx = 0
          THEN [status |-> "panic", msg |-> "Could not find null terminator"]
        ELSE IF ~is_utf8(size_str)
          THEN [status |-> "panic", msg |-> "Unable to parse size"]
        ELSE IF parse_usize(size_str) < 0
          THEN [status |-> "panic", msg |-> "Unable to parse size string"]
        ELSE [status |-> "ok", msg |-> "",
              object |-> [bytes |-> decompressed_bytes,
                          space_idx |-> space_idx,
                          contents_idx |-> null_idx + 1,
                          contents_size |-> parse_usize(size_str)]]

\* cat_file, taking the contents from the NUL on instead of after it
cat_file_from_nul(fs, sha) ==
  LET r == git_read_object(fs, sha)
      object == r.object
      contents_slice ==
        SubSeq(object.bytes, object.contents_idx - 1, Len(object.bytes))
  IN IF r.status # "ok" THEN [status |-> "panic", msg |-> r.msg, ret |-> <<>>]
     ELSE IF ~is_utf8(contents_slice)
       THEN [status |-> "panic", msg |-> "Failed to convert contents", ret |-> <<>>]
     ELSE IF SubSeq(object.bytes, 1, object.space_idx - 1) = BLOB
       THEN [status |-> "ok", msg |-> "", ret |-> contents_slice]
     ELSE [status |-> "panic", msg |-> "Could not match object type", ret |-> <<>>]

cat_file(fs, sha) ==
  LET r == git_read_object(fs, sha)
      object == r.object
      contents_slice == SubSeq(object.bytes, object.contents_idx, Len(object.bytes))
  IN IF r.status # "ok" THEN [status |-> "panic", msg |-> r.msg, ret |-> <<>>]
     ELSE IF object.contents_size # Len(contents_slice)
       THEN [status |-> "panic", msg |-> "Size does not match contents size",
             ret |-> <<>>]
     ELSE IF ~is_utf8(contents_slice)
       THEN [status |-> "panic", msg |-> "Failed to convert contents", ret |-> <<>>]
     ELSE IF SubSeq(object.bytes, 1, object.space_idx - 1) = BLOB
       THEN [status |-> "ok", msg |-> "", ret |-> contents_slice]
     ELSE [status |-> "panic", msg |-> "Could not match object type", ret |-> <<>>]

hash_object(fs, object_type, contents) ==
  LET object == envelope(object_type, contents)
      compressed_contents == compress(object)
      sha == sha_hash_str(object)
      sha_dir == object_dir(sha)
  IN IF sha_dir \in fs.dirs
       THEN [status |-> "panic", msg |-> "Failed to create sha object directory",
             dirs |-> fs.dirs, files |-> fs.files, ret |-> <<>>]
     ELSE [status |-> "ok", msg |-> "",
           dirs |-> fs.dirs \cup {sha_dir},
           files |-> [p \in DOMAIN fs.files \cup {object_file(sha)} |->
                        IF p = object_file(sha) THEN compressed_contents
                        ELSE fs.files[p]],
           ret |-> sha]

parse_one_tree(bytes, index) ==
  LET space_idx == position(bytes, SP, index)
      null_idx == position(bytes, NUL, space_idx)
  IN IF space_idx = 0 THEN [ok |-> FALSE, msg |-> "Could not find space"]
     ELSE IF null_idx = 0 THEN [ok |-> FALSE, msg |-> "Could not find null terminator"]
     ELSE IF ~is_utf8(SubSeq(bytes, space_idx + 1, null_idx - 1))
       THEN [ok |-> FALSE, msg |-> "Unable to parse directory string"]
     ELSE [ok |-> TRUE,
           mode |-> SubSeq(bytes, index, space_idx - 1),
           next |-> null_idx + ShaLen + 1,
           name |-> SubSeq(bytes, space_idx + 1, null_idx - 1)]

RECURSIVE parse_tree_from(_, _, _)
parse_tree_from(bytes, idx, result) ==
  IF idx > Len(bytes) THEN [ok |-> TRUE, names |-> result]
  ELSE LET r == parse_one_tree(bytes, idx)
       IN IF ~r.ok THEN [ok |-> FALSE, msg |-> r.msg]
          ELSE parse_tree_from(bytes, r.next, Append(result, r.name))

parse_tree(bytes) == parse_tree_from(bytes, 1, <<>>)

ls_tree(fs, sha) ==
  LET r == git_read_object(fs, sha)
      t == parse_tree(SubSeq(r.object.bytes, r.object.contents_idx,
                             Len(r.object.bytes)))
  IN IF r.status # "ok" THEN [status |-> "panic", msg |-> r.msg, ret |-> <<>>]
     ELSE IF ~t.ok THEN [status |-> "panic", msg |-> t.msg, ret |-> <<>>]
     ELSE [status |-> "ok", msg |-> "", ret |-> t.names]

(***************************************************************************)
(* main.rs: write_tree and commit.  A directory is the sequence of its     *)
(* entries in the order read_dir reports them; an entry is                 *)
(* [name, is_dir, data, entries].                                          *)
(***************************************************************************)
DOT_GIT == <<46, 103, 105, 116>>
MODE_DIR == <<48, 52, 48, 48, 48, 48>>
MODE_FILE == <<49, 48, 48, 54, 52, 52>>

RECURSIVE write_tree(_, _)
RECURSIVE walk_entries(_, _, _, _)
\* walk_entries, without the test that skips .git
walk_entries_with_git(fs, dir, i, entries) ==
  IF i > Len(dir) THEN [fs |-> fs, entries |-> entries]
  ELSE IF dir[i].is_dir
    THEN LET w == write_tree(fs, dir[i].entries)
         IN walk_entries(w, dir, i + 1,
              Append(entries, [mode |-> MODE_DIR, path |-> dir[i].name,
                               sha_hash |-> w.ret]))
  ELSE LET w == write_object(fs, dir[i].data, BLOB)
       IN walk_entries(w, dir, i + 1,
            Append(entries, [mode |-> MODE_FILE, path |-> dir[i].name,
                             sha_hash |-> w.ret]))

walk_entries(fs, dir, i, entries) ==
  IF i > Len(dir) THEN [fs |-> fs, entries |-> entries]
  ELSE IF dir[i].name = DOT_GIT THEN walk_entries(fs, dir, i + 1, entries)
  ELSE IF dir[i].is_dir
    THEN LET w == write_tree(fs, dir[i].entries)
         IN walk_entries(w, dir, i + 1,
              Append(entries, [mode |-> MODE_DIR, path |-> dir[i].name,
                               sha_hash |-> w.ret]))
  ELSE LET w == write_object(fs, dir[i].data, BLOB)
       IN walk_entries(w, dir, i + 1,
            Append(entries, [mode |-> MODE_FILE, path |-> dir[i].name,
                             sha_hash |-> w.ret]))

\* write_tree, writing the tree of a directory before it walks the entries
write_tree_parent_first(fs, dir) ==
  LET entries == walk_entries(fs, dir, 1, <<>>).entries
      first == write_object(fs, serialize_tree(entries), TREE)
      walked == walk_entries(first, dir, 1, <<>>)
  IN [status |-> "ok", dirs |-> walked.fs.dirs, files |-> walked.fs.files,
      log |-> walked.fs.log, ret |-> first.ret]

write_tree(fs, dir) ==
  LET walked == walk_entries(fs, dir, 1, <<>>)
  IN write_object(walked.fs, serialize_tree(walked.entries), TREE)

\* Rust's / and % on i32 truncate toward zero
trunc_div(a, b) == IF a >= 0 THEN a \div b ELSE -((-a) \div b)
trunc_rem(a, b) == a - b * trunc_div(a, b)

\* format!("{:+03}", n): the sign, then the digits zero-padded to width 3
format_plus_03(n) ==
  LET digits == to_string(IF n < 0 THEN -n ELSE n)
  IN <<IF n < 0 THEN 45 ELSE 43>>
       \o (IF Len(digits) < 2 THEN <<48>> ELSE <<>>) \o digits

\* format!("{:02}", n): zero-padded to width 2, a '-' counted in the width
format_02(n) ==
  IF n < 0 THEN <<45>> \o to_string(-n)
  ELSE (IF n < 10 THEN <<48>> ELSE <<>>) \o to_string(n)

format_offset(local_minus_utc) ==
  format_plus_03(trunc_div(local_minus_utc, 3600))
    \o format_02(trunc_div(trunc_rem(local_minus_utc, 3600), 60))

RECURSIVE join(_, _)
join(lines, sep) ==
  IF lines = <<>> THEN <<>>
  ELSE IF Len(lines) = 1 THEN lines[1]
  ELSE lines[1] \o sep \o join(Tail(lines), sep)

\* commit_contents, with the parent line before the tree line
commit_contents_swapped(tree_hash, message, parent_hash, timestamp, local_minus_utc) ==
  LET author_contents ==
        <<75, 101, 118, 105, 110, 32, 71, 117, 111>> \o <<32, 60>>
          \o <<107, 101, 118, 46, 103, 117, 111, 49, 50, 51, 64, 103, 109, 97,
               105, 108, 46, 99, 111, 109>>
          \o <<62, 32>> \o to_string(timestamp) \o <<SP>>
          \o format_offset(local_minus_utc)
      author_line == <<97, 117, 116, 104, 111, 114, 32>> \o author_contents
      parent_line == <<112, 97, 114, 101, 110, 116, 32>> \o parent_hash
      committer_line ==
        <<99, 111, 109, 109, 105, 116, 116, 101, 114, 32>> \o author_contents
      tree_line == <<116, 114, 101, 101, 32>> \o tree_hash
  IN join(<<parent_line, tree_line, author_line, committer_line, <<>>,
            message, <<>>>>, NEWLINE)

commit_contents(tree_hash, message, parent_hash, timestamp, local_minus_utc) ==
  LET author_contents ==
        <<75, 101, 118, 105, 110, 32, 71, 117, 111>> \o <<32, 60>>
          \o <<107, 101, 118, 46, 103, 117, 111, 49, 50, 51, 64, 103, 109, 97,
               105, 108, 46, 99, 111, 109>>
          \o <<62, 32>> \o to_string(timestamp) \o <<SP>>
          \o format_offset(local_minus_utc)
      author_line == <<97, 117, 116, 104, 111, 114, 32>> \o author_contents
      parent_line == <<112, 97, 114, 101, 110, 116, 32>> \o parent_hash
      committer_line ==
        <<99, 111, 109, 109, 105, 116, 116, 101, 114, 32>> \o author_contents
      tree_line == <<116, 114, 101, 101, 32>> \o tree_hash
  IN join(<<tree_line, parent_line, author_line, committer_line, <<>>,
            message, <<>>>>, NEWLINE)

commit(fs, tree_hash, message, parent_hash, timestamp, local_minus_utc) ==
  write_object(fs,
    commit_contents(tree_hash, message, parent_hash, timestamp, local_minus_utc),
    COMMIT)

(***************************************************************************)
(* Inputs.                                                                 *)
(***************************************************************************)
\* file contents: empty, text, text with the envelope's delimiters in it,
\* and a byte string that is not valid UTF-8
Contents == {<<>>, <<97>>, <<97, 97>>, <<SP, NUL>>, <<255>>}

\* the object_type values handed to hash_object
ObjectTypes == {BLOB, TREE, COMMIT}

File(name, data) == [name |-> name, is_dir |-> FALSE, data |-> data, entries |-> <<>>]
Dir(name, entries) == [name |-> name, is_dir |-> TRUE, data |-> <<>>, entries |-> entries]

\* working directories: an initialized repository always holds .git
WorkTrees ==
  { <<Dir(<<100>>, <<>>), Dir(DOT_GIT, <<File(<<72, 69, 65, 68>>, <<>>)>>)>> }

Messages == {<<109>>, <<110>>}
Timestamps == {1493170892}
Offsets == {0}

EmptyTreeId == sha_hash_str(envelope(TREE, <<>>))

\* the id given with -p: commit does not look it up in the store
ParentId == sha_hash_str(envelope(COMMIT, <<>>))

StoredIds == {p[1] \o p[2] : p \in DOMAIN files}

\* the ids a reader is asked for: the stored ones and the ids of all contents
HashArgs == StoredIds \cup {sha_hash_str(envelope(BLOB, c)) : c \in Contents}

(***************************************************************************)
(* State.                                                                  *)
(***************************************************************************)
NoFiles == [p \in {} |-> <<>>]

Fs == [status |-> "ok", dirs |-> dirs, files |-> files, log |-> <<>>]

\* repeat: every object of the call had been stored by an earlier call
Ended(prog, cmd, arg, status, msg, ret, stdout, exit, log, repeat) ==
  [prog |-> prog, cmd |-> cmd, arg |-> arg, status |-> status, msg |-> msg,
   ret |-> ret, stdout |-> stdout, exit |-> exit, log |-> log, repeat |-> repeat]

Init ==
  /\ dirs = {}
  /\ files = NoFiles
  /\ workdir \in WorkTrees
  /\ last = Ended("none", "init", <<>>, "ok", "", <<>>, <<>>, 0, <<>>, FALSE)
  /\ calls = {}
  /\ leaves = <<>>
  /\ out = [done |-> FALSE, bytes |-> <<>>]

\* a command of main.rs that stored objects: w is what write_object returned
Stored(cmd, arg, written) ==
  \E w \in {written} :
  /\ Cardinality(DOMAIN w.files) <= MaxObjects
  /\ dirs' = w.dirs
  /\ files' = w.files
  /\ calls' = calls \cup {w.log[i] : i \in 1..Len(w.log)}
  /\ last' = IF w.status = "ok"
               THEN Ended("main", cmd, arg, "ok", "", w.ret, w.ret \o NEWLINE, 0,
                          w.log, \A i \in 1..Len(w.log) : w.log[i] \in calls)
             ELSE Ended("main", cmd, arg, "panic", "unwrap on Err", "none", <<>>,
                        101, w.log, FALSE)
  /\ UNCHANGED <<workdir, leaves, out>>

\* a command or call that left the store alone
Read(prog, cmd, arg, status, msg, ret, stdout, exit) ==
  /\ last' = Ended(prog, cmd, arg, status, msg, ret, stdout, exit, <<>>, FALSE)
  /\ UNCHANGED <<dirs, files, workdir, calls, leaves, out>>

(***************************************************************************)
(* main.rs: the commands of main.                                          *)
(***************************************************************************)
HashObjectCmd ==
  \E data \in Contents : Stored("hash-object", data, write_object(Fs, data, BLOB))

CatFileCmd ==
  \E hash \in HashArgs :
    LET r == read_object(Fs, hash)
    IN IF r.status # "ok"
         THEN Read("main", "cat-file", hash, "panic", r.msg, "none", <<>>, 101)
       ELSE IF r.object.kind = "blob"
         THEN Read("main", "cat-file", hash, "ok", "", r.object,
                   serialize(r.object), 0)
       ELSE Read("main", "cat-file", hash, "ok", "", r.object,
                 <<117, 110, 101, 120, 112, 101, 99, 116, 101, 100, 32, 111, 98,
                   106, 101, 99, 116, 32, 116, 121, 112, 101, 32, 102, 111, 114,
                   32, 99, 97, 116, 45, 102, 105, 108, 101, 10>>, 0)

LsTreeCmd ==
  \E hash \in HashArgs :
    LET r == read_object(Fs, hash)
    IN IF r.status # "ok"
         THEN Read("main", "ls-tree", hash, "panic", r.msg, "none", <<>>, 101)
       ELSE IF r.object.kind = "tree"
         THEN Read("main", "ls-tree", hash, "ok", "", r.object,
                   concat([i \in 1..Len(r.object.leaves) |->
                             as_bytes(r.object.leaves[i].path) \o NEWLINE]), 0)
       ELSE Read("main", "ls-tree", hash, "ok", "", r.object,
                 <<110, 111, 116, 32, 97, 32, 116, 114, 101, 101, 32, 111, 98,
                   106, 101, 99, 116, 10>>, 0)

WriteTreeCmd == Stored("write-tree", workdir, write_tree(Fs, workdir))

CommitTreeCmd ==
  \E has_p \in BOOLEAN, message \in Messages, timestamp \in Timestamps,
     offset \in Offsets :
    LET arg == [tree |-> EmptyTreeId, has_p |-> has_p, parent |-> ParentId,
                message |-> message]
    IN IF ~has_p
         THEN Read("main", "commit-tree", arg, "panic", "unwrap on None", "none",
                   <<>>, 101)
       ELSE Stored("commit-tree", arg,
                   commit(Fs, EmptyTreeId, message, ParentId, timestamp, offset))

NextMain ==
  \/ HashObjectCmd
  \/ CatFileCmd
  \/ LsTreeCmd
  \/ WriteTreeCmd
  \/ CommitTreeCmd

(***************************************************************************)
(* git.rs: the calls of the library, on the same repository.               *)
(***************************************************************************)
GitHashObject ==
  \E object_type \in ObjectTypes, contents \in Contents :
    \E r \in {hash_object(Fs, object_type, contents)} :
       /\ Cardinality(DOMAIN r.files) <= MaxObjects
       /\ dirs' = r.dirs
       /\ files' = r.files
       /\ calls' = IF r.status = "ok"
                     THEN calls \cup {[type |-> object_type, contents |-> contents,
                                       sha |-> r.ret]}
                   ELSE calls
       /\ last' = Ended("git", "hash_object",
                        [object_type |-> object_type, contents |-> contents],
                        r.status, r.msg, r.ret, <<>>, 0, <<>>,
                        [type |-> object_type, contents |-> contents,
                         sha |-> r.ret] \in calls)
       /\ UNCHANGED <<workdir, leaves, out>>

GitCatFile ==
  \E sha \in HashArgs :
    LET r == cat_file(Fs, sha)
    IN Read("git", "cat_file", sha, r.status, r.msg, r.ret, <<>>, 0)

GitLsTree ==
  \E sha \in HashArgs :
    LET r == ls_tree(Fs, sha)
    IN Read("git", "ls_tree", sha, r.status, r.msg, r.ret, <<>>, 0)

NextLib ==
  \/ GitHashObject
  \/ GitCatFile
  \/ GitLsTree

\* every operation that stores an object, of the binary and of the library
NextStore ==
  \/ HashObjectCmd
  \/ WriteTreeCmd
  \/ CommitTreeCmd
  \/ GitHashObject

\* the binary
Spec == Init /\ [][NextMain]_vars

\* the library
SpecLib == Init /\ [][NextLib]_vars

\* the writers of both
SpecStore == Init /\ [][NextStore]_vars

(***************************************************************************)
(* hash-object with and without -w: main takes the last argument as the    *)
(* path of the file and never looks at the flag.                           *)
(***************************************************************************)
HashObjectPlainCmd ==
  \E data \in Contents :
    Stored("hash-object without -w", data, write_object(Fs, data, BLOB))

NextFlags == NextMain \/ HashObjectPlainCmd

\* the binary, with hash-object called with and without -w
SpecFlags == Init /\ [][NextFlags]_vars

(***************************************************************************)
(* Object files that were not written by write_object or hash_object: the  *)
(* store is a directory, and test_cat_file (git.rs) writes an object file  *)
(* into it by hand.  PlaceObject does the same with envelopes whose        *)
(* declared length is not the length of what follows the NUL.              *)
(***************************************************************************)
\* 'blob 5' NUL 'a', 'blob 0' NUL 'a' and 'blob 1' NUL
ForeignObjects ==
  { BLOB \o <<SP, 53, NUL, 97>>,
    BLOB \o <<SP, 48, NUL, 97>>,
    BLOB \o <<SP, 49, NUL>> }

PlaceObject ==
  \E full_contents \in ForeignObjects :
    LET sha == sha_hash_str(full_contents)
    IN /\ Cardinality(DOMAIN files \cup {object_file(sha)}) <= MaxObjects
       /\ dirs' = dirs \cup {object_dir(sha)}
       /\ files' = [p \in DOMAIN files \cup {object_file(sha)} |->
                      IF p = object_file(sha) THEN compress(full_contents)
                      ELSE files[p]]
       /\ last' = Ended("test", "place", full_contents, "ok", "", sha, <<>>, 0,
                        <<>>, FALSE)
       /\ UNCHANGED <<workdir, calls, leaves, out>>

NextExt == NextMain \/ PlaceObject

\* the binary, on a store that also holds object files written by hand
SpecExt == Init /\ [][NextExt]_vars

(***************************************************************************)
(* GitTree::serialize as a function of its leaves: the leaves are drawn    *)
(* at the start, Serialize applies serialize to them.                      *)
(***************************************************************************)
\* entry names: a, a0, a\ and b
Names == {<<97>>, <<97, 48>>, <<97, BACKSLASH>>, <<98>>}

\* the leaf write_tree builds for a file holding its own name, and for an
\* empty directory
FileLeaf(name) ==
  [mode |-> MODE_FILE, path |-> name,
   sha_hash |-> sha_hash_str(envelope(BLOB, name))]

DirLeaf(name) == [mode |-> MODE_DIR, path |-> name, sha_hash |-> EmptyTreeId]

Leaves == {FileLeaf(name) : name \in Names} \cup {DirLeaf(name) : name \in Names}

\* the entries of a directory have pairwise distinct names
LeafSeqs ==
  {ls \in UNION {[1..n -> Leaves] : n \in 0..MaxLeaves} :
     \A i, j \in 1..Len(ls) : i # j => ls[i].path # ls[j].path}

InitSerialize ==
  /\ dirs = {}
  /\ files = NoFiles
  /\ workdir \in WorkTrees
  /\ last = Ended("none", "init", <<>>, "ok", "", <<>>, <<>>, 0, <<>>, FALSE)
  /\ calls = {}
  /\ leaves \in LeafSeqs
  /\ out = [done |-> FALSE, bytes |-> <<>>]

Serialize ==
  /\ ~out.done
  /\ out' = [done |-> TRUE, bytes |-> serialize_tree(leaves)]
  /\ UNCHANGED <<dirs, files, workdir, last, calls, leaves>>

SpecSerialize == InitSerialize /\ [][Serialize]_vars

(***************************************************************************)
(* write_tree on working directories that hold files, sub-directories and  *)
(* sub-directories of these; the store starts empty.                       *)
(***************************************************************************)
\* most entries of a directory, .git not counted
MaxEntries == 2

\* a file f holding 'a', an empty file g
TreeFiles == {File(<<102>>, <<97>>), File(<<103>>, <<>>)}

TreeNames == {<<102>>, <<103>>}

\* .git holds HEAD, whose content no file of the working directory has
GitDir == Dir(DOT_GIT, <<File(<<72, 69, 65, 68>>, <<114>>)>>)

\* the directories with entries from S: pairwise distinct names
DirsOver(S) ==
  {es \in UNION {[1..n -> S] : n \in 0..MaxEntries} :
     \A i, j \in 1..Len(es) : i # j => es[i].name # es[j].name}

InnerDirs ==
  {Dir(n, es) : n \in TreeNames,
                es \in DirsOver(TreeFiles \cup {Dir(m, <<>>) : m \in TreeNames})}

\* read_dir reports .git before or after the other entries
DeepWorkTrees ==
  UNION {{<<GitDir>> \o es, es \o <<GitDir>>} :
           es \in DirsOver(TreeFiles \cup InnerDirs)}

InitTree ==
  /\ dirs = {}
  /\ files = NoFiles
  /\ workdir \in DeepWorkTrees
  /\ last = Ended("none", "init", <<>>, "ok", "", <<>>, <<>>, 0, <<>>, FALSE)
  /\ calls = {}
  /\ leaves = <<>>
  /\ out = [done |-> FALSE, bytes |-> <<>>]

\* write-tree, whatever the number of objects it stores
WriteTreeDeepCmd ==
  \E w \in {write_tree(Fs, workdir)} :
    /\ dirs' = w.dirs
    /\ files' = w.files
    /\ calls' = calls \cup {w.log[i] : i \in 1..Len(w.log)}
    /\ last' = Ended("main", "write-tree", workdir, "ok", "", w.ret,
                     w.ret \o NEWLINE, 0, w.log,
                     \A i \in 1..Len(w.log) : w.log[i] \in calls)
    /\ UNCHANGED <<workdir, leaves, out>>

SpecTree == InitTree /\ [][WriteTreeDeepCmd]_vars

(***************************************************************************)
(* git.rs: ls_tree on the trees of test_ls_tree.  The test builds a tree   *)
(* payload with add_path, stores it with hash_object and lists it.         *)
(***************************************************************************)
\* test_dir, test_file, dir
TestPaths ==
  << <<116, 101, 115, 116, 95, 100, 105, 114>>,
     <<116, 101, 115, 116, 95, 102, 105, 108, 101>>,
     <<100, 105, 114>> >>

\* "000000" and "100000"
TestModes == {<<48, 48, 48, 48, 48, 48>>, <<49, 48, 48, 48, 48, 48>>}

add_path(contents, mode, path) ==
  contents \o mode \o <<SP>> \o path \o <<NUL>> \o sha_hash(path)

\* the paths of the test in the order of the test, each with either mode,
\* and every selection of them
TestEntries ==
  {es \in UNION {[1..n -> [mode : TestModes, path : 1..Len(TestPaths)]] :
                   n \in 0..Len(TestPaths)} :
     \A i \in 1..(Len(es) - 1) : es[i].path < es[i + 1].path}

RECURSIVE tree_contents(_)
tree_contents(es) ==
  IF es = <<>> THEN <<>>
  ELSE add_path(tree_contents(SubSeq(es, 1, Len(es) - 1)),
                es[Len(es)].mode, TestPaths[es[Len(es)].path])

GitHashTree ==
  \E es \in TestEntries :
    \E contents \in {tree_contents(es)} :
      \E r \in {hash_object(Fs, TREE, contents)} :
        /\ Cardinality(DOMAIN r.files) <= MaxObjects
        /\ dirs' = r.dirs
        /\ files' = r.files
        /\ calls' = IF r.status = "ok"
                      THEN calls \cup {[type |-> TREE, contents |-> contents,
                                        sha |-> r.ret]}
                    ELSE calls
        /\ last' = Ended("git", "hash_object",
                         [object_type |-> TREE, contents |-> contents],
                         r.status, r.msg, r.ret, <<>>, 0, <<>>,
                         [type |-> TREE, contents |-> contents,
                          sha |-> r.ret] \in calls)
        /\ UNCHANGED <<workdir, leaves, out>>

NextLsTree ==
  \/ GitHashTree
  \/ GitLsTree

\* the library, storing and listing trees
SpecLsTree == Init /\ [][NextLsTree]_vars

(***************************************************************************)
(* tree_parse as a function of the payload: the serialization of a tree,   *)
(* whole or damaged.  A payload is cut by dropping bytes of its last       *)
(* record (so that the child id, the NUL or the space is missing), and     *)
(* its first mode is made longer than 6 bytes by two more digits.  One     *)
(* behaviour is one call.                                                  *)
(***************************************************************************)
\* bytes dropped at the end: none; 1 and 20 leave fewer than 20 bytes after
\* the NUL; 21 leaves no NUL; 23 and 24 leave no NUL or no space
Cuts == {0, 1, 20, 21, 23, 24}

damaged(payload, cut, long_mode) ==
  (IF long_mode THEN <<49, 49>> ELSE <<>>)
    \o SubSeq(payload, 1, Len(payload) - cut)

TreeParseCmd ==
  \E ls \in LeafSeqs, cut \in Cuts, long_mode \in BOOLEAN :
    /\ last.cmd = "init"
    /\ (cut > 0 \/ long_mode) => ls # <<>>
    /\ \E raw_bytes \in {damaged(serialize_tree(ls), cut, long_mode)} :
         \E r \in {tree_parse(raw_bytes)} :
           Read("main", "tree_parse",
                [raw_bytes |-> raw_bytes, leaves |-> ls, cut |-> cut,
                 long_mode |-> long_mode],
                IF r.ok THEN "ok" ELSE "panic",
                IF r.ok THEN "" ELSE r.msg,
                IF r.ok THEN r.leaves ELSE <<>>,
                <<>>,
                IF r.ok THEN 0 ELSE 101)

SpecParse == Init /\ [][TreeParseCmd]_vars

(***************************************************************************)
(* The timezone field of commit as a function of the local UTC offset.     *)
(* One behaviour is one call.                                              *)
(***************************************************************************)
\* offsets are drawn in quarters of an hour, up to this many on either side
MaxQuarterHours == 95

\* local_minus_utc: whole minutes, less than a day on either side
LocalOffsets ==
  {s \in {q * 900 : q \in (-MaxQuarterHours)..MaxQuarterHours} :
     -86400 < s /\ s < 86400}

FormatOffsetCmd ==
  \E local_minus_utc \in LocalOffsets :
    /\ last.cmd = "init"
    /\ Read("main", "format_offset", local_minus_utc, "ok", "",
            format_offset(local_minus_utc), <<>>, 0)

SpecOffset == Init /\ [][FormatOffsetCmd]_vars

(***************************************************************************)
(* The claims.                                                             *)
(***************************************************************************)
\* the envelope the specification asks for: kind, space, decimal length of
\* the payload, NUL, payload
SpecEnvelope(kind, payload) ==
  kind \o <<32>> \o to_string(Len(payload)) \o <<0>> \o payload

\* the id the specification asks for, and the path it derives from the id
SpecId(kind, payload) == hex_encode(sha_hash(SpecEnvelope(kind, payload)))

SpecPath(id) == <<SubSeq(id, 1, 2), SubSeq(id, 3, Len(id))>>

HoldsEnvelope(kind, payload) ==
  /\ SpecPath(SpecId(kind, payload)) \in DOMAIN files
  /\ files[SpecPath(SpecId(kind, payload))] = compress(SpecEnvelope(kind, payload))

\* the (kind, payload) the last storing call was given, when it is one call
LastStored ==
  IF last.prog = "git"
    THEN [type |-> last.arg.object_type, contents |-> last.arg.contents]
  ELSE [type |-> last.log[Len(last.log)].type,
        contents |-> last.log[Len(last.log)].contents]

IsStore ==
  /\ last.cmd \in {"hash-object", "write-tree", "commit-tree", "hash_object"}
  /\ last.status = "ok"

\* C1: for every kind k and payload p, storing the object (write_object of
\* main.rs behind hash-object, hash_object of git.rs) returns the hex digest
\* of the envelope k, ' ', decimal length of p, NUL, p, and afterwards the
\* file at objects/<first two characters of the id>/<the rest> holds the
\* compressed envelope.
C1_StoreReturnsDigest ==
  /\ last.cmd = "hash-object" =>
       /\ last.status = "ok"
       /\ last.ret = SpecId(BLOB, last.arg)
       /\ HoldsEnvelope(BLOB, last.arg)
  /\ last.cmd = "hash_object" =>
       /\ last.status = "ok"
       /\ last.ret = SpecId(last.arg.object_type, last.arg.contents)
       /\ HoldsEnvelope(last.arg.object_type, last.arg.contents)

\* what the code keeps of C1: every write_object call returns, and a store
\* call that returns gives back the digest of the envelope and leaves the
\* compressed envelope in the file of that id
C1_ReturnedIdIsDigest ==
  /\ \A c \in calls :
       /\ c.sha = SpecId(c.type, c.contents)
       /\ HoldsEnvelope(c.type, c.contents)
  /\ IsStore =>
       /\ last.ret = SpecId(LastStored.type, LastStored.contents)
       /\ [type |-> LastStored.type, contents |-> LastStored.contents,
           sha |-> last.ret] \in calls
  /\ last.cmd = "hash-object" =>
       /\ last.status = "ok"
       /\ last.ret = SpecId(BLOB, last.arg)
       /\ last.stdout = last.ret \o <<10>>
  /\ last.cmd = "write-tree" => last.status = "ok"

KindName(object_type) ==
  IF object_type = BLOB THEN "blob"
  ELSE IF object_type = TREE THEN "tree"
  ELSE IF object_type = COMMIT THEN "commit"
  ELSE "unknown"

\* the last command read, with read_object of main.rs, the id in last.arg
IsMainRead == last.prog = "main" /\ last.cmd \in {"cat-file", "ls-tree"}

\* C2: round trip through the store of main.rs: reading the id write_object
\* returned for a blob, tree or commit payload succeeds and returns an object
\* of the same kind whose serialization is the payload stored.
C2_RoundTrip ==
  \A c \in calls :
    (IsMainRead /\ last.arg = c.sha) =>
      /\ last.status = "ok"
      /\ last.ret.kind = KindName(c.type)
      /\ serialize(last.ret) = c.contents

\* the part of the round trip that main.rs keeps: blobs
C2_BlobRoundTrip ==
  \A c \in calls :
    (IsMainRead /\ last.arg = c.sha /\ c.type = BLOB) =>
      /\ last.status = "ok"
      /\ last.ret.kind = "blob"
      /\ serialize(last.ret) = c.contents

\* C3: in git.rs, when the file at the path derived from the id holds the
\* compressed envelope 'blob <len(c)>' NUL c of a valid-text payload c,
\* cat_file of that id returns exactly c.
C3_CatFileReturnsContents ==
  \A c \in Contents :
    ( /\ last.prog = "git"
      /\ last.cmd = "cat_file"
      /\ last.arg = SpecId(BLOB, c)
      /\ HoldsEnvelope(BLOB, c)
      /\ is_utf8(c) ) =>
        /\ last.status = "ok"
        /\ last.ret = c

\* C3 witness: cat_file has returned the text, with the envelope's delimiters
\* in it, that hash_object stored as a blob
C3_Witness ==
  /\ last.prog = "git"
  /\ last.cmd = "cat_file"
  /\ last.status = "ok"
  /\ last.ret = <<32, 0>>
  /\ last.arg = SpecId(BLOB, <<32, 0>>)
  /\ [type |-> BLOB, contents |-> <<32, 0>>, sha |-> last.arg] \in calls

\* C4: in main.rs stored objects are immutable and re-storing is idempotent:
\* every write_object call succeeds whether or not its file exists, no call
\* changes the bytes under an id stored before, and a call that repeats an
\* earlier (kind, payload) returns the id returned before and leaves the
\* whole store as it was.
C4_ImmutableIdempotent ==
  [][ /\ \A p \in DOMAIN files : p \in DOMAIN files' /\ files'[p] = files[p]
      /\ dirs \subseteq dirs'
      /\ last'.log # <<>> =>
           /\ last'.status = "ok"
           /\ \A i \in 1..Len(last'.log) : \A c \in calls :
                (c.type = last'.log[i].type /\ c.contents = last'.log[i].contents)
                  => c.sha = last'.log[i].sha
           /\ (\A i \in 1..Len(last'.log) : \E c \in calls :
                 c.type = last'.log[i].type /\ c.contents = last'.log[i].contents)
                => (files' = files /\ dirs' = dirs /\ last'.repeat)
    ]_vars

\* C4 witness: write_object has stored again an object that was in the store
C4_Witness ==
  /\ last.prog = "main"
  /\ last.cmd \in {"hash-object", "write-tree", "commit-tree"}
  /\ last.status = "ok"
  /\ last.repeat
  /\ last.log # <<>>
  /\ \A i \in 1..Len(last.log) :
       HoldsEnvelope(last.log[i].type, last.log[i].contents)

\* C5: every hash_object call (git.rs) on an initialized repository succeeds,
\* also when the directory objects/<first two characters of the id> is there
\* already: it stores the object and returns its id.
C5_HashObjectAlwaysSucceeds ==
  (last.prog = "git" /\ last.cmd = "hash_object") =>
    /\ last.status = "ok"
    /\ last.ret = SpecId(last.arg.object_type, last.arg.contents)
    /\ HoldsEnvelope(last.arg.object_type, last.arg.contents)

\* what git.rs keeps of C5: hash_object succeeds when the directory of the id
\* is not there yet, and panics, leaving the store alone, when it is
C5_HashObjectFailsOnExistingDir ==
  [][ (last'.prog = "git" /\ last'.cmd = "hash_object") =>
        LET id == SpecId(last'.arg.object_type, last'.arg.contents)
        IN IF SubSeq(id, 1, 2) \in dirs
             THEN last'.status = "panic" /\ files' = files /\ dirs' = dirs
           ELSE last'.status = "ok" /\ last'.ret = id
    ]_vars

\* the orderings of a sequence
Orderings(ls) ==
  {[i \in 1..Len(ls) |-> ls[p[i]]] :
     p \in {q \in [1..Len(ls) -> 1..Len(ls)] :
              \A i, j \in 1..Len(ls) : i # j => q[i] # q[j]}}

\* C6: GitTree::serialize does not depend on the order of the leaves: every
\* ordering of a set of entries with pairwise distinct names (files 100644,
\* directories 040000) serializes to the same bytes.
C6_OrderIndependent ==
  out.done => \A other \in Orderings(leaves) : serialize_tree(other) = out.bytes

\* what main.rs keeps of C6: the order does not matter when no file is named
\* as a directory of the set followed by a backslash
C6_OrderIndependentWithoutBackslash ==
  (out.done /\ \A i, j \in 1..Len(leaves) :
                 leaves[i].path # Append(leaves[j].path, 92))
    => \A other \in Orderings(leaves) : serialize_tree(other) = out.bytes

\* the canonical key: a file's name as it is, a directory's name with '/'
SpecKey(leaf) ==
  IF leaf.mode = <<49, 48, 48, 54, 52, 52>> THEN leaf.path
  ELSE Append(leaf.path, 47)

\* mode without its leading zero, ' ', name, NUL, the 20 bytes of the child id
SpecRecord(leaf) ==
  (IF leaf.mode[1] = 48 THEN Tail(leaf.mode) ELSE leaf.mode)
    \o <<32>> \o leaf.path \o <<0>> \o hex_decode(leaf.sha_hash)

\* C7: GitTree::serialize emits the entries in ascending byte order of the
\* canonical key (file: the name; directory: the name with '/' appended), and
\* writes the names without the separator.
C7_CanonicalOrder ==
  out.done =>
    \E sorted \in Orderings(leaves) :
      /\ \A i \in 1..(Len(sorted) - 1) :
           seq_less(SpecKey(sorted[i]), SpecKey(sorted[i + 1]))
      /\ out.bytes = concat([i \in 1..Len(sorted) |-> SpecRecord(sorted[i])])

\* what main.rs does: ascending order of the key with '\' for '/'
C7_BackslashOrder ==
  out.done =>
    \E sorted \in Orderings(leaves) :
      /\ \A i \in 1..(Len(sorted) - 1) :
           ~seq_less(IF sorted[i + 1].mode = <<49, 48, 48, 54, 52, 52>>
                       THEN sorted[i + 1].path ELSE Append(sorted[i + 1].path, 92),
                     IF sorted[i].mode = <<49, 48, 48, 54, 52, 52>>
                       THEN sorted[i].path ELSE Append(sorted[i].path, 92))
      /\ out.bytes = concat([i \in 1..Len(sorted) |-> SpecRecord(sorted[i])])

\* C8: fetching an id for which no file exists at the id-derived path ends
\* in a NotFound error reported to the caller, never in a panic, and leaves
\* the store unchanged.
C8_MissingIsNotFound ==
  (IsMainRead /\ SpecPath(last.arg) \notin DOMAIN files) =>
    /\ last.status = "error"
    /\ last.msg = "NotFound"

\* C8 for the library: read_object, cat_file and ls_tree of git.rs
C8_MissingIsNotFoundLib ==
  (last.prog = "git" /\ last.cmd \in {"cat_file", "ls_tree"}
     /\ SpecPath(last.arg) \notin DOMAIN files) =>
    /\ last.status = "error"
    /\ last.msg = "NotFound"

\* what the code keeps of C8: a fetch leaves the store unchanged, and a fetch
\* of a missing id panics
C8_MissingPanicsStoreUnchanged ==
  [][ last'.cmd \in {"cat-file", "ls-tree", "cat_file", "ls_tree"} =>
        /\ files' = files /\ dirs' = dirs
        /\ SpecPath(last'.arg) \notin DOMAIN files => last'.status = "panic"
    ]_vars

\* the envelope in bytes declares a length that is not the number of bytes
\* after its NUL
DeclaresWrongLength(bytes) ==
  LET sp == position(bytes, 32, 1)
      nul == position(bytes, 0, sp)
      declared == parse_usize(SubSeq(bytes, sp + 1, nul - 1))
  IN sp > 0 /\ nul > 0 /\ declared >= 0 /\ declared # Len(bytes) - nul

\* C9: read_object of main.rs on a stored object whose envelope declares a
\* length different from the number of bytes after the NUL fails with
\* InvalidFormat, and the payload is neither returned nor printed.
C9_LengthMismatchIsInvalidFormat ==
  ( /\ IsMainRead
    /\ SpecPath(last.arg) \in DOMAIN files
    /\ decompress(files[SpecPath(last.arg)]).ok
    /\ DeclaresWrongLength(decompress(files[SpecPath(last.arg)]).bytes) ) =>
      /\ last.status = "error"
      /\ last.msg = "InvalidFormat"
      /\ last.stdout = <<>>

\* C10: in main.rs cat-file on an id whose object is not a blob, and ls-tree
\* on an id whose object is not a tree, fail: nothing on standard output and
\* a non-zero exit status, never a success with exit status 0.
C10_KindMismatchFails ==
  \A c \in calls :
    ( /\ IsMainRead
      /\ last.arg = c.sha
      /\ \/ last.cmd = "cat-file" /\ c.type # BLOB
         \/ last.cmd = "ls-tree" /\ c.type # TREE ) =>
      /\ last.exit # 0
      /\ last.stdout = <<>>

\* the child ids named by the entries of a stored tree payload
ChildIds(payload) ==
  LET t == tree_parse(payload)
  IN IF t.ok THEN {t.leaves[k].sha_hash : k \in 1..Len(t.leaves)} ELSE {}

IsWriteTree == last.cmd = "write-tree" /\ last.status = "ok"

\* C11: write_tree builds in post-order: when a tree object is written, every
\* child id its entries name (blob of a file, tree of a sub-directory) has
\* been written before it, and the root tree is the last object written.
C11_PostOrder ==
  IsWriteTree =>
    /\ last.log # <<>>
    /\ last.log[Len(last.log)].type = TREE
    /\ last.log[Len(last.log)].sha = last.ret
    /\ \A i \in 1..Len(last.log) :
         last.log[i].type = TREE =>
           /\ tree_parse(last.log[i].contents).ok
           /\ \A id \in ChildIds(last.log[i].contents) :
                \E j \in 1..(i - 1) : last.log[j].sha = id

\* C11 witness: write-tree has stored the tree of a sub-directory that names
\* a child, and after it the tree of the directory that holds it
C11_Witness ==
  /\ IsWriteTree
  /\ \E i, j \in 1..Len(last.log) :
       /\ i < j
       /\ last.log[i].type = TREE
       /\ last.log[j].type = TREE
       /\ ChildIds(last.log[i].contents) # {}
       /\ last.log[i].sha \in ChildIds(last.log[j].contents)

\* the entries of a directory that write_tree is to store
Kept(dir) == SelectSeq(dir, LAMBDA e : e.name # <<46, 103, 105, 116>>)

\* the tree payloads the specification allows for a directory: in some order,
\* one record per kept entry: 100644 and the blob id of a file, 040000
\* (written without its leading zero) and the tree id of a sub-directory
RECURSIVE SpecTreePayloads(_)
SpecTreePayloads(dir) ==
  LET kept == Kept(dir)
      Sub(e) == IF e.is_dir THEN SpecTreePayloads(e.entries) ELSE {<<>>}
      Picks(o) == {pick \in [1..Len(o) -> UNION {Sub(o[k]) : k \in 1..Len(o)}] :
                     \A k \in 1..Len(o) : pick[k] \in Sub(o[k])}
      Record(e, sub) ==
        IF e.is_dir
          THEN <<52, 48, 48, 48, 48, 32>> \o e.name \o <<0>>
                 \o hex_decode(SpecId(TREE, sub))
        ELSE <<49, 48, 48, 54, 52, 52, 32>> \o e.name \o <<0>>
               \o hex_decode(SpecId(BLOB, e.data))
  IN UNION {{concat([k \in 1..Len(o) |-> Record(o[k], pick[k])]) : pick \in Picks(o)} :
              o \in Orderings(kept)}

\* the directories write_tree walks, and the files it reads
RECURSIVE Walked(_)
Walked(dir) ==
  {dir} \cup UNION {IF Kept(dir)[k].is_dir THEN Walked(Kept(dir)[k].entries) ELSE {} :
                     k \in 1..Len(Kept(dir))}

FilesRead(dir) ==
  UNION {{D[k].data : k \in {n \in 1..Len(D) : ~D[n].is_dir /\ D[n].name # <<46, 103, 105, 116>>}} :
           D \in Walked(dir)}

\* C12: for every directory D that write_tree walks, the tree stored for D
\* has exactly one entry per child of D other than .git (100644 and the blob
\* id of a file, 040000 and the tree id of a sub-directory); nothing under
\* .git is stored; a directory without storable entries gives the id of the
\* envelope 'tree 0' NUL.
C12_TreeOfDirectory ==
  IsWriteTree =>
    \E allowed \in {[D \in Walked(workdir) |-> SpecTreePayloads(D)]} :
      /\ \E p \in allowed[workdir] :
           last.ret = SpecId(TREE, p) /\ HoldsEnvelope(TREE, p)
      /\ \A D \in Walked(workdir) :
           \E p \in allowed[D] :
             /\ SpecPath(SpecId(TREE, p)) \in DOMAIN files
             /\ \E i \in 1..Len(last.log) :
                  last.log[i].type = TREE /\ last.log[i].contents = p
      /\ \A i \in 1..Len(last.log) :
           \/ /\ last.log[i].type = BLOB
              /\ last.log[i].contents \in FilesRead(workdir)
           \/ /\ last.log[i].type = TREE
              /\ \E D \in Walked(workdir) : last.log[i].contents \in allowed[D]
      /\ \A i \in 1..Len(last.log) :
           /\ last.log[i].sha = SpecId(last.log[i].type, last.log[i].contents)
           /\ HoldsEnvelope(last.log[i].type, last.log[i].contents)
      /\ DOMAIN files = {SpecPath(last.log[i].sha) : i \in 1..Len(last.log)}
      /\ Kept(workdir) = <<>> => last.ret = SpecId(TREE, <<>>)
      /\ \A D \in Walked(workdir) :
           Kept(D) = <<>> =>
             \E i \in 1..Len(last.log) : last.log[i].sha = SpecId(TREE, <<>>)

\* C12 witness: write-tree has run on a working directory that holds, next
\* to .git, a file and a sub-directory with an entry of its own
C12_Witness ==
  /\ IsWriteTree
  /\ Len(workdir) = 3
  /\ \E k \in 1..Len(workdir) : workdir[k].name = <<46, 103, 105, 116>>
  /\ \E k \in 1..Len(workdir) : ~workdir[k].is_dir
  /\ \E k \in 1..Len(workdir) :
       /\ workdir[k].is_dir
       /\ workdir[k].name # <<46, 103, 105, 116>>
       /\ workdir[k].entries # <<>>

\* the lines of a text: the runs of bytes between its newlines
SplitLines(text) ==
  LET nl == {k \in 1..Len(text) : text[k] = 10}
      Nth(i) == IF i = 0 THEN 0
                ELSE IF i > Cardinality(nl) THEN Len(text) + 1
                ELSE CHOOSE k \in nl : Cardinality({j \in nl : j < k}) = i - 1
  IN [i \in 1..(Cardinality(nl) + 1) |-> SubSeq(text, Nth(i - 1) + 1, Nth(i) - 1)]

IsCommitTree == last.cmd = "commit-tree" /\ last.status = "ok"

\* C13: commit with tree id T, parent id P and message M stores an object of
\* kind commit whose payload is, joined by newlines, 'tree T', 'parent P',
\* 'author <identity>', 'committer <identity>', an empty line, M and a
\* trailing empty line; commits that differ only in M have different
\* payloads and different ids.
C13_CommitLayout ==
  IsCommitTree =>
    \E lines \in {SplitLines(last.log[1].contents)} :
      /\ Len(last.log) = 1
      /\ last.log[1].type = COMMIT
      /\ last.ret = SpecId(COMMIT, last.log[1].contents)
      /\ HoldsEnvelope(COMMIT, last.log[1].contents)
      /\ Len(lines) = 7
      /\ lines[1] = <<116, 114, 101, 101, 32>> \o last.arg.tree
      /\ lines[2] = <<112, 97, 114, 101, 110, 116, 32>> \o last.arg.parent
      /\ Len(lines[3]) > 7
      /\ SubSeq(lines[3], 1, 7) = <<97, 117, 116, 104, 111, 114, 32>>
      /\ lines[4] = <<99, 111, 109, 109, 105, 116, 116, 101, 114, 32>>
                      \o SubSeq(lines[3], 8, Len(lines[3]))
      /\ lines[5] = <<>>
      /\ lines[6] = last.arg.message
      /\ lines[7] = <<>>
      /\ \A d \in calls :
           d.type = COMMIT =>
             \E other \in {SplitLines(d.contents)} :
               ( /\ Len(other) = 7
                 /\ \A k \in {1, 2, 3, 4, 5, 7} : other[k] = lines[k]
                 /\ other[6] # lines[6] ) =>
                   /\ d.contents # last.log[1].contents
                   /\ d.sha # last.ret

\* C13 witness: commit-tree has stored a second commit, which differs from
\* the first in its message only
C13_Witness ==
  /\ IsCommitTree
  /\ Len(SplitLines(last.log[1].contents)) = 7
  /\ \E d \in calls :
       /\ d.type = COMMIT
       /\ SplitLines(d.contents)[6] # last.arg.message
       /\ SplitLines(d.contents)[1] = SplitLines(last.log[1].contents)[1]
       /\ SplitLines(d.contents)[2] = SplitLines(last.log[1].contents)[2]

\* C14: commit-tree without a parent id succeeds, and the payload of the
\* commit it stores has no 'parent' line: the line after 'tree <treeId>' is
\* the 'author' line.
C14_NoParentLine ==
  (last.cmd = "commit-tree" /\ ~last.arg.has_p) =>
    /\ last.status = "ok"
    /\ Len(last.log) = 1
    /\ \E lines \in {SplitLines(last.log[1].contents)} :
         /\ Len(lines) >= 2
         /\ lines[1] = <<116, 114, 101, 101, 32>> \o last.arg.tree
         /\ Len(lines[2]) >= 7
         /\ SubSeq(lines[2], 1, 7) = <<97, 117, 116, 104, 111, 114, 32>>
         /\ \A k \in 1..Len(lines) :
              Len(lines[k]) >= 7 =>
                SubSeq(lines[k], 1, 7) # <<112, 97, 114, 101, 110, 116, 32>>

\* what main.rs does for C14: without -p the command panics before commit is
\* called, and stores nothing
C14_NoParentPanics ==
  [][ (last'.cmd = "commit-tree" /\ ~last'.arg.has_p) =>
        /\ last'.status = "panic"
        /\ last'.exit = 101
        /\ files' = files
        /\ dirs' = dirs
    ]_vars

\* C15: hash-object without the write flag prints the id of the object and
\* leaves the store unchanged: no directory and no file is created under
\* .git/objects.
C15_NoWriteLeavesStore ==
  [][ last'.cmd = "hash-object without -w" =>
        /\ last'.status = "ok"
        /\ last'.stdout = SpecId(BLOB, last'.arg) \o <<10>>
        /\ files' = files
        /\ dirs' = dirs
    ]_vars

\* what main.rs does for C15: without -w, too, the id is printed and the
\* object is stored
C15_NoWriteStores ==
  last.cmd = "hash-object without -w" =>
    /\ last.status = "ok"
    /\ last.stdout = SpecId(BLOB, last.arg) \o <<10>>
    /\ HoldsEnvelope(BLOB, last.arg)

\* the names of the entries of es that satisfy Test, in the order of es
NamesWhere(es, Test(_)) ==
  LET kept == SelectSeq(es, Test)
  IN [k \in 1..Len(kept) |-> TestPaths[kept[k].path]]

\* C16: ls_tree (git.rs) on a stored tree returns the names of the entries
\* with a directory mode only, in stored order, and leaves out the entries
\* with a file mode (leading digit 1): for test_dir (000000), test_file
\* (100000), dir (000000) it returns test_dir, dir.
C16_ListsDirectoriesOnly ==
  (last.prog = "git" /\ last.cmd = "ls_tree") =>
    \A es \in TestEntries :
      \E contents \in {tree_contents(es)} :
        (last.arg = SpecId(TREE, contents) /\ HoldsEnvelope(TREE, contents)) =>
          /\ last.status = "ok"
          /\ last.ret = NamesWhere(es, LAMBDA e : e.mode[1] # 49)

\* what git.rs does for C16: ls_tree returns the name of every entry
C16_ListsEveryName ==
  (last.prog = "git" /\ last.cmd = "ls_tree") =>
    \A es \in TestEntries :
      \E contents \in {tree_contents(es)} :
        (last.arg = SpecId(TREE, contents) /\ HoldsEnvelope(TREE, contents)) =>
          /\ last.status = "ok"
          /\ last.ret = NamesWhere(es, LAMBDA e : TRUE)

IsDigits(mode) == \A k \in 1..Len(mode) : mode[k] \in 48..57

\* C17: tree_parse_one returns a mode of exactly 6 ASCII digits for every
\* record, a 5-digit run d1..d5 as '0' d1..d5 and a 6-digit run unchanged:
\* parsing the serialization of a tree built by write_tree returns each
\* entry with its mode (040000 or 100644), its name and its child id.
C17_ModeIsSixDigits ==
  (last.cmd = "tree_parse" /\ last.arg.cut = 0 /\ ~last.arg.long_mode) =>
    /\ last.status = "ok"
    /\ Len(last.ret) = Len(last.arg.leaves)
    /\ \A k \in 1..Len(last.ret) :
         /\ Len(last.ret[k].mode) = 6
         /\ IsDigits(last.ret[k].mode)
         /\ \E n \in 1..Len(last.arg.leaves) : last.ret[k] = last.arg.leaves[n]

\* what main.rs does for C17: a 6-digit run is returned unchanged, a 5-digit
\* run d1..d5 comes back as d1..d5 followed by a 0 byte; names and child ids
\* are returned as they were
C17_FiveDigitsThenZeroByte ==
  (last.cmd = "tree_parse" /\ last.arg.cut = 0 /\ ~last.arg.long_mode) =>
    /\ last.status = "ok"
    /\ Len(last.ret) = Len(last.arg.leaves)
    /\ \A k \in 1..Len(last.ret) :
         \E n \in 1..Len(last.arg.leaves) :
           /\ last.ret[k].path = last.arg.leaves[n].path
           /\ last.ret[k].sha_hash = last.arg.leaves[n].sha_hash
           /\ last.ret[k].mode =
                IF last.arg.leaves[n].mode[1] = 48
                  THEN Tail(last.arg.leaves[n].mode) \o <<0>>
                ELSE last.arg.leaves[n].mode

\* C18: tree_parse on a malformed payload (no space after the mode, no NUL
\* after the name, a mode run longer than 6 bytes, fewer than 20 bytes after
\* the NUL) ends in an InvalidFormat error: it does not panic and returns no
\* entry list.
C18_MalformedIsInvalidFormat ==
  (last.cmd = "tree_parse" /\ (last.arg.cut > 0 \/ last.arg.long_mode)) =>
    /\ last.status = "error"
    /\ last.msg = "InvalidFormat"
    /\ last.ret = <<>>

\* what main.rs does for C18: every such payload ends in an out-of-bounds
\* panic
C18_MalformedPanics ==
  (last.cmd = "tree_parse" /\ (last.arg.cut > 0 \/ last.arg.long_mode)) =>
    /\ last.status = "panic"
    /\ last.exit = 101

\* two decimal digits of a number below 100
TwoDigits(n) == <<48 + (n \div 10), 48 + (n % 10)>>

\* sign, two digits of |s| div 3600, two digits of (|s| mod 3600) div 60
SignedHHMM(s) ==
  LET a == IF s < 0 THEN -s ELSE s
  IN <<IF s < 0 THEN 45 ELSE 43>> \o TwoDigits(a \div 3600)
       \o TwoDigits((a % 3600) \div 60)

\* C19: for every local UTC offset s of whole minutes with -86400 < s < 86400
\* the timezone field commit writes has exactly 5 characters: the sign ('+'
\* for s >= 0, '-' for s < 0), two digits of |s| div 3600 and two digits of
\* (|s| mod 3600) div 60; -12600 gives '-0330'.
C19_TimezoneIsSignedHHMM ==
  last.cmd = "format_offset" =>
    /\ Len(last.ret) = 5
    /\ last.ret = SignedHHMM(last.arg)

\* what main.rs does for C19: the field is as claimed for offsets that are
\* not negative and for negative offsets of whole hours; for the others the
\* minutes carry a '-' of their own, and the sign of the hours is '+' when
\* the offset is less than an hour
C19_NegativeMinutesKeepSign ==
  last.cmd = "format_offset" =>
    LET s == last.arg
        a == IF s < 0 THEN -s ELSE s
    IN IF s >= 0 \/ a % 3600 = 0 THEN last.ret = SignedHHMM(s)
       ELSE last.ret = <<IF a < 3600 THEN 43 ELSE 45>> \o TwoDigits(a \div 3600)
                         \o <<45>> \o TwoDigits((a % 3600) \div 60)

====
